---- MODULE Spec2Model ----
(***************************************************************************)
(* RevitClientConnection: the framed request/response transport.           *)
(*                                                                         *)
(* Bytes are integers 0..255, a Buffer is a sequence of bytes, a string is *)
(* a sequence of code points.  The JavaScript event loop runs one handler  *)
(* to completion at a time, so every handler is one atomic action.         *)
(***************************************************************************)
EXTENDS Integers, Sequences, FiniteSets, TLC

\* ------------------------------------------------------------------ bounds
\* sendCommand calls made over the life of the connection object
MaxCalls == 2
\* frames the peer writes over the life of the connection object
MaxFrames == 2
\* items of the input stream fed to the Framer in SpecFramer
MaxItems == 2
\* tasks in the arguments of a batch routing tool call
MaxTasks == 3

\* ------------------------------------------------------- program constants
\* processData: 10 * 1024 * 1024
MaxMessageLength == 10 * 1024 * 1024

\* --------------------------------------------------------------- alphabet
\* Code points of the model's reduced JSON (see ParseJSON).
Ch == [ id1 |-> 49, id2 |-> 50, error |-> 69, errorNoMessage |-> 85,
        result |-> 82, resultNonAscii |-> 233, null |-> 110, brace |-> 123,
        ping |-> 112, slow |-> 115, params |-> 928, replacement |-> 65533 ]

\* the strings generateRequestId returns in the model, and the commands sent
Ids == {Ch.id1, Ch.id2}
Methods == {"ping", "slow"}

VARIABLES
  isConnected,        \* this.isConnected
  sock,               \* state of this.socket: "idle", "connecting", "open"
  responseCallbacks,  \* this.responseCallbacks: id -> owning call (0: no entry)
  lengthBuffer,       \* this.lengthBuffer
  messageBuffer,      \* this.messageBuffer
  expectedLength,     \* this.expectedLength: <<>> is null, <<n>> is the number n
  calls,              \* the promises returned by sendCommand, with their timers
  answered,           \* per call: was a response carrying its id handled since it
                      \* was issued: "no", "before" or "after" its timer fired
  written,            \* the Buffers handed to socket.write, in order
  wire,               \* bytes the peer has written that are not yet delivered
  input,              \* the items of a framing run (SpecFramer), in order
  lastData,           \* what the handler of the latest step did in processData:
                      \* its chunk, its handleResponse calls, its console.error
                      \* reports (all empty when the handler was another one)
  fatal,              \* an invalid length was reported on the current connection
  frames,             \* number of items the peer has written
  batch               \* the running call of a batch routing tool (SpecBatch)

vars == <<isConnected, sock, responseCallbacks, lengthBuffer, messageBuffer,
          expectedLength, calls, answered, written, wire, input, lastData,
          fatal, frames, batch>>

\* ----------------------------------------------------------------- helpers
Min(a, b) == IF a < b THEN a ELSE b

\* mutant: the prefix read little-endian
ReadInt32LE(b) ==
  (IF b[4] >= 128 THEN b[4] - 256 ELSE b[4]) * 16777216
    + b[3] * 65536 + b[2] * 256 + b[1]

\* Buffer.readInt32BE(0): big-endian two's complement
ReadInt32BE(b) ==
  (IF b[1] >= 128 THEN b[1] - 256 ELSE b[1]) * 16777216
    + b[2] * 65536 + b[3] * 256 + b[4]

\* Buffer.writeInt32BE(n, 0) for 0 <= n < 2^31
WriteInt32BE(n) ==
  << n \div 16777216, (n \div 65536) % 256, (n \div 256) % 256, n % 256 >>

\* Buffer.from(str, 'utf8'): a lone surrogate is written as U+FFFD
Utf8EncodeChar(c) ==
  IF c < 128 THEN << c >>
  ELSE IF c < 2048 THEN << 192 + (c \div 64), 128 + (c % 64) >>
  ELSE LET d == IF c >= 55296 /\ c <= 57343 THEN Ch.replacement ELSE c
       IN << 224 + (d \div 4096), 128 + ((d \div 64) % 64), 128 + (d % 64) >>

RECURSIVE Utf8Encode(_)
Utf8Encode(str) ==
  IF str = <<>> THEN <<>> ELSE Utf8EncodeChar(Head(str)) \o Utf8Encode(Tail(str))

IsCont(b) == b >= 128 /\ b <= 191

\* buf.toString('utf8'): ill-formed input decodes to U+FFFD, one per maximal
\* subpart.  (No byte 0xF0..0xF4 occurs in the model's inputs; 4-byte forms are
\* treated as ill-formed lead bytes.)
RECURSIVE Utf8Decode(_)
Utf8Decode(b) ==
  IF b = <<>> THEN <<>>
  ELSE LET b1 == b[1]
           n == Len(b)
           rest(k) == SubSeq(b, k + 1, n)
       IN IF b1 < 128 THEN << b1 >> \o Utf8Decode(rest(1))
          ELSE IF b1 >= 194 /\ b1 <= 223
            THEN IF n >= 2 /\ IsCont(b[2])
                   THEN << (b1 - 192) * 64 + (b[2] - 128) >> \o Utf8Decode(rest(2))
                   ELSE << Ch.replacement >> \o Utf8Decode(rest(1))
          ELSE IF b1 >= 224 /\ b1 <= 239
            THEN LET lo == IF b1 = 224 THEN 160 ELSE 128
                     hi == IF b1 = 237 THEN 159 ELSE 191
                 IN IF n >= 2 /\ b[2] >= lo /\ b[2] <= hi
                      THEN IF n >= 3 /\ IsCont(b[3])
                             THEN << (b1 - 224) * 4096 + (b[2] - 128) * 64 + (b[3] - 128) >>
                                    \o Utf8Decode(rest(3))
                             ELSE << Ch.replacement >> \o Utf8Decode(rest(2))
                      ELSE << Ch.replacement >> \o Utf8Decode(rest(1))
          ELSE << Ch.replacement >> \o Utf8Decode(rest(1))

\* mutant: the prefix counts characters, not bytes
EncodeFrameCharCount(str) == WriteInt32BE(Len(str)) \o Utf8Encode(str)

\* sendCommand's wire encoding: 4-byte length of the UTF-8 body, then the body
EncodeFrame(str) ==
  LET messageBody == Utf8Encode(str)
  IN WriteInt32BE(Len(messageBody)) \o messageBody

\* ------------------------------------------------------------ reduced JSON
\* JSON.parse over the model's alphabet.  A document is one of
\*   n          the literal null
\*   k          an object without "id"
\*   i k        an object with "id": i          (i a digit 1..9)
\* where k is E ("error":{"message":"boom"}), U ("error":{}),
\* R ("result":"ok") or e-acute ("result": a non-ASCII string).
\* Every other string is a SyntaxError.
IdChars == 49..57
KindChars == {Ch.error, Ch.errorNoMessage, Ch.result, Ch.resultNonAscii}
NoId == 0

BodyOf(k) ==
  [ error  |-> IF k = Ch.error THEN "boom"
               ELSE IF k = Ch.errorNoMessage THEN "empty" ELSE "absent",
    result |-> IF k = Ch.result THEN "ok"
               ELSE IF k = Ch.resultNonAscii THEN "ok-nonascii" ELSE "undefined" ]

ParseJSON(str) ==
  IF str = << Ch.null >>
    THEN [ok |-> TRUE, isNull |-> TRUE, id |-> NoId, error |-> "absent", result |-> "undefined"]
  ELSE IF Len(str) = 1 /\ str[1] \in KindChars
    THEN [ok |-> TRUE, isNull |-> FALSE, id |-> NoId] @@ BodyOf(str[1])
  ELSE IF Len(str) = 2 /\ str[1] \in IdChars /\ str[2] \in KindChars
    THEN [ok |-> TRUE, isNull |-> FALSE, id |-> str[1]] @@ BodyOf(str[2])
  ELSE [ok |-> FALSE, isNull |-> FALSE, id |-> NoId, error |-> "absent", result |-> "undefined"]

\* JSON.stringify(commandObj): the method's initial, the params (one non-ASCII
\* character stands for their text), then the id
MethodChar(method) == IF method = "ping" THEN Ch.ping ELSE Ch.slow
StringifyCommand(method, requestId) == << MethodChar(method), Ch.params, requestId >>

\* ---------------------------------------------------------------- promises
\* A call is the promise sendCommand returned: only the first resolve/reject
\* settles it, later ones are counted and otherwise ignored.
\* timeoutMs is the third argument the caller passed (<<>>: none); delay is the
\* delay of the call's setTimeout.
TimeoutDelay == 120000

NewCall(requestId, method, timeoutMs) ==
  [ id |-> requestId, method |-> method, state |-> "pending", value |-> <<>>,
    settleCalls |-> 0, timer |-> "none", timeoutMs |-> timeoutMs,
    delay |-> TimeoutDelay ]

Settle(cs, c, how, v) ==
  LET old == cs[c]
  IN [cs EXCEPT ![c] =
        IF old.state = "pending"
          THEN [old EXCEPT !.state = how, !.value = v, !.settleCalls = old.settleCalls + 1]
          ELSE [old EXCEPT !.settleCalls = old.settleCalls + 1]]

Resolve(cs, c, v) == Settle(cs, c, "resolved", v)
Reject(cs, c, v) == Settle(cs, c, "rejected", v)

TimeoutError(method) == << "Command timed out after 2 minutes: ", method >>

\* mutant: the "error" field is not looked at
ResponseCallbackIgnoresError(cs, c, responseData) ==
  LET response == ParseJSON(responseData)
  IN IF ~response.ok \/ response.isNull
       THEN Reject(cs, c, << "Failed to parse response" >>)
       ELSE Resolve(cs, c, << response.result >>)

\* the callback sendCommand registers for call c
ResponseCallback(cs, c, responseData) ==
  LET response == ParseJSON(responseData)
  IN IF ~response.ok \/ response.isNull
       THEN Reject(cs, c, << "Failed to parse response" >>)
     ELSE IF response.error # "absent"
       THEN Reject(cs, c, << IF response.error = "empty"
                               THEN "Unknown error from Revit" ELSE response.error >>)
     ELSE Resolve(cs, c, << response.result >>)

\* --------------------------------------------------------------- the Framer
GetCallback(reg, requestId) == IF requestId \in DOMAIN reg THEN reg[requestId] ELSE 0

ResetBuffers(st) ==
  [st EXCEPT !.lengthBuffer = <<>>, !.messageBuffer = <<>>, !.expectedLength = <<>>]

\* mutant: a payload that does not parse is handed to the oldest entry
HandleResponseMalformedToOldest(st, responseData, at) ==
  LET response == ParseJSON(responseData)
      emit(w) == [payload |-> responseData, winner |-> w, at |-> at]
      held == { i \in DOMAIN st.reg : st.reg[i] # 0 }
  IN IF ~response.ok \/ response.isNull
       THEN IF held = {}
              THEN [st EXCEPT !.log = Append(@, [what |-> "Error parsing response", n |-> 0]),
                              !.emits = Append(@, emit(0))]
              ELSE LET requestId == CHOOSE i \in held : \A j \in held : st.reg[i] <= st.reg[j]
                   IN [st EXCEPT !.calls = ResponseCallback(@, st.reg[requestId], responseData),
                                 !.reg = [@ EXCEPT ![requestId] = 0],
                                 !.emits = Append(@, emit(st.reg[requestId]))]
     ELSE LET requestId == response.id
              callback == GetCallback(st.reg, requestId)
          IN IF callback # 0
               THEN [st EXCEPT !.calls = ResponseCallback(@, callback, responseData),
                               !.reg = [@ EXCEPT ![requestId] = 0],
                               !.emits = Append(@, emit(callback))]
               ELSE [st EXCEPT !.emits = Append(@, emit(0))]

\* mutant: a response whose id has no entry goes to the oldest entry instead
HandleResponseFallback(st, responseData, at) ==
  LET response == ParseJSON(responseData)
      emit(w) == [payload |-> responseData, winner |-> w, at |-> at]
      held == { i \in DOMAIN st.reg : st.reg[i] # 0 }
  IN IF ~response.ok \/ response.isNull
       THEN [st EXCEPT !.log = Append(@, [what |-> "Error parsing response", n |-> 0]),
                       !.emits = Append(@, emit(0))]
     ELSE LET requestId == IF GetCallback(st.reg, response.id) # 0 \/ held = {}
                             THEN response.id
                             ELSE CHOOSE i \in held : \A j \in held : st.reg[i] <= st.reg[j]
              callback == GetCallback(st.reg, requestId)
          IN IF callback # 0
               THEN [st EXCEPT !.calls = ResponseCallback(@, callback, responseData),
                               !.reg = [@ EXCEPT ![requestId] = 0],
                               !.emits = Append(@, emit(callback))]
               ELSE [st EXCEPT !.emits = Append(@, emit(0))]

\* handleResponse(responseData), called when `at` bytes of the chunk are consumed
HandleResponse(st, responseData, at) ==
  LET response == ParseJSON(responseData)
      emit(w) == [payload |-> responseData, winner |-> w, at |-> at]
  IN IF ~response.ok \/ response.isNull
       THEN [st EXCEPT !.log = Append(@, [what |-> "Error parsing response", n |-> 0]),
                       !.emits = Append(@, emit(0))]
     ELSE LET requestId == response.id
              callback == GetCallback(st.reg, requestId)
          IN IF callback # 0
               THEN [st EXCEPT !.calls = ResponseCallback(@, callback, responseData),
                               !.reg = [@ EXCEPT ![requestId] = 0],
                               !.emits = Append(@, emit(callback))]
               ELSE [st EXCEPT !.emits = Append(@, emit(0))]

\* mutant: a length of 0 passes the check
ValidLengthZeroAllowed(n) == ~(n < 0 \/ n > MaxMessageLength)

ValidLength(n) == ~(n <= 0 \/ n > MaxMessageLength)

\* mutant: the length accumulator is not emptied once the length is decoded
ReadLengthKeepsPrefix(st, data, offset) ==
  IF st.expectedLength # <<>> THEN [st |-> st, offset |-> offset, abort |-> FALSE]
  ELSE LET needed == 4 - Len(st.lengthBuffer)
           available == Len(data) - offset
           toCopy == Min(needed, available)
           lb == st.lengthBuffer \o SubSeq(data, offset + 1, offset + toCopy)
       IN IF Len(lb) = 4
            THEN LET n == ReadInt32BE(lb)
                 IN IF ValidLength(n)
                      THEN [st |-> [st EXCEPT !.lengthBuffer = lb, !.expectedLength = << n >>],
                            offset |-> offset + toCopy, abort |-> FALSE]
                      ELSE [st |-> ResetBuffers(
                                     [st EXCEPT !.log = Append(@, [what |-> "Invalid message length",
                                                                   n |-> n]),
                                                !.fatal = TRUE]),
                            offset |-> offset + toCopy, abort |-> TRUE]
            ELSE [st |-> [st EXCEPT !.lengthBuffer = lb],
                  offset |-> offset + toCopy, abort |-> FALSE]

\* first stage of the loop body: the length prefix
ReadLength(st, data, offset) ==
  IF st.expectedLength # <<>> THEN [st |-> st, offset |-> offset, abort |-> FALSE]
  ELSE LET needed == 4 - Len(st.lengthBuffer)
           available == Len(data) - offset
           toCopy == Min(needed, available)
           lb == st.lengthBuffer \o SubSeq(data, offset + 1, offset + toCopy)
       IN IF Len(lb) = 4
            THEN LET n == ReadInt32BE(lb)
                 IN IF ValidLength(n)
                      THEN [st |-> [st EXCEPT !.lengthBuffer = <<>>, !.expectedLength = << n >>],
                            offset |-> offset + toCopy, abort |-> FALSE]
                      ELSE [st |-> ResetBuffers(
                                     [st EXCEPT !.log = Append(@, [what |-> "Invalid message length",
                                                                   n |-> n]),
                                                !.fatal = TRUE]),
                            offset |-> offset + toCopy, abort |-> TRUE]
            ELSE [st |-> [st EXCEPT !.lengthBuffer = lb],
                  offset |-> offset + toCopy, abort |-> FALSE]

\* mutant: the rest of the chunk is copied, not just what the frame still needs
ReadMessageGreedy(st, data, offset) ==
  IF st.expectedLength = <<>> THEN [st |-> st, offset |-> offset]
  ELSE LET available == Len(data) - offset
           toCopy == available
           mb == st.messageBuffer \o SubSeq(data, offset + 1, offset + toCopy)
       IN IF Len(mb) = st.expectedLength[1]
            THEN [st |-> ResetBuffers(
                           HandleResponse([st EXCEPT !.messageBuffer = mb],
                                          Utf8Decode(mb), offset + toCopy)),
                  offset |-> offset + toCopy]
            ELSE [st |-> [st EXCEPT !.messageBuffer = mb], offset |-> offset + toCopy]

\* second stage of the loop body: the message content
ReadMessage(st, data, offset) ==
  IF st.expectedLength = <<>> THEN [st |-> st, offset |-> offset]
  ELSE LET needed == st.expectedLength[1] - Len(st.messageBuffer)
           available == Len(data) - offset
           toCopy == Min(needed, available)
           mb == st.messageBuffer \o SubSeq(data, offset + 1, offset + toCopy)
       IN IF Len(mb) = st.expectedLength[1]
            THEN [st |-> ResetBuffers(
                           HandleResponse([st EXCEPT !.messageBuffer = mb],
                                          Utf8Decode(mb), offset + toCopy)),
                  offset |-> offset + toCopy]
            ELSE [st |-> [st EXCEPT !.messageBuffer = mb], offset |-> offset + toCopy]

RECURSIVE ProcessLoop(_, _, _)
ProcessLoop(st, data, offset) ==
  IF ~(offset < Len(data)) THEN st
  ELSE LET s1 == ReadLength(st, data, offset)
       IN IF s1.abort THEN s1.st
          ELSE LET s2 == ReadMessage(s1.st, data, s1.offset)
               IN ProcessLoop(s2.st, data, s2.offset)

\* processData(data) on the current state
ProcessData(data) ==
  ProcessLoop([ lengthBuffer |-> lengthBuffer, messageBuffer |-> messageBuffer,
                expectedLength |-> expectedLength, reg |-> responseCallbacks,
                calls |-> calls, emits |-> <<>>, log |-> <<>>, fatal |-> fatal ],
              data, 0)

\* ------------------------------------------------------------- environment
\* What the peer may write: a framed payload, or four raw bytes in the place
\* of a length prefix.
Msg(str) == [t |-> "msg", str |-> str, bytes |-> EncodeFrame(str)]
Raw(b) == [t |-> "raw", str |-> <<>>, bytes |-> b]

PrefixZero == << 0, 0, 0, 0 >>
PrefixNegative == << 255, 255, 255, 255 >>
PrefixTooLong == WriteInt32BE(MaxMessageLength + 1)
PrefixMax == WriteInt32BE(MaxMessageLength)
BadPrefixes == { PrefixZero, PrefixNegative, PrefixTooLong }

\* the peer of Spec: a result and an error for one id, a result for the other,
\* a payload that is no JSON, an invalid length
PeerItems ==
  { Msg(<< Ch.id1, Ch.result >>), Msg(<< Ch.id1, Ch.error >>), Msg(<< Ch.id2, Ch.result >>),
    Msg(<< Ch.brace >>), Raw(PrefixZero) }

\* the streams of SpecFramer: payloads of 1, 2 and 3 bytes, every kind of prefix
FramerPayloads ==
  { << Ch.result >>, << Ch.id1, Ch.error >>, << Ch.id2, Ch.resultNonAscii >> }
FramerItems ==
  { Msg(p) : p \in FramerPayloads } \cup { Raw(b) : b \in BadPrefixes \cup {PrefixMax} }

NoData == [chunk |-> <<>>, emits |-> <<>>, log |-> <<>>]

\* no summary has been built
NoSummary == [ total |-> 0, succeeded |-> 0, failed |-> 0 ]

\* no batch tool call has been made
NoBatch ==
  [ pc |-> "idle", tool |-> "", tasks |-> <<>>, parallel |-> FALSE,
    stopOnError |-> FALSE, i |-> 0, exec |-> <<>>, sent |-> <<>>,
    results |-> <<>>, response |-> "none", summary |-> NoSummary ]

\* ------------------------------------------------------------------- Init
\* the state after `new RevitClientConnection(host, port)`
Init ==
  /\ isConnected = FALSE
  /\ sock = "idle"
  /\ responseCallbacks = [i \in Ids |-> 0]
  /\ lengthBuffer = <<>>
  /\ messageBuffer = <<>>
  /\ expectedLength = <<>>
  /\ calls = <<>>
  /\ answered = <<>>
  /\ written = <<>>
  /\ wire = <<>>
  /\ input = <<>>
  /\ lastData = NoData
  /\ fatal = FALSE
  /\ frames = 0
  /\ batch = NoBatch

\* ---------------------------------------------------------------- actions
\* connect() goes on to this.socket.connect(port, host) unless isConnected
CallsSocketConnect == ~isConnected

\* socket.connect() starts an attempt on an idle socket; on a socket that is
\* connecting or open the attempt in progress (or the connection) stays as it
\* is, unless a socket "error" event follows
SocketConnectCall(s) == IF s = "idle" THEN "connecting" ELSE s

\* connect()
ConnectEffect == IF CallsSocketConnect THEN SocketConnectCall(sock) ELSE sock

Connect ==
  /\ sock' = ConnectEffect
  /\ lastData' = NoData
  /\ UNCHANGED <<isConnected, responseCallbacks, lengthBuffer, messageBuffer,
                 expectedLength, calls, answered, written, wire, input, fatal, frames, batch>>

\* mutant: disconnect() also empties the registry
DisconnectClearsRegistry ==
  /\ isConnected' = FALSE
  /\ responseCallbacks' = [i \in Ids |-> 0]
  /\ lastData' = NoData
  /\ UNCHANGED <<sock, lengthBuffer, messageBuffer,
                 expectedLength, calls, answered, written, wire, input, fatal, frames, batch>>

\* disconnect(): socket.end() half-closes, the flag drops at once
Disconnect ==
  /\ isConnected' = FALSE
  /\ lastData' = NoData
  /\ UNCHANGED <<sock, responseCallbacks, lengthBuffer, messageBuffer,
                 expectedLength, calls, answered, written, wire, input, fatal, frames, batch>>

\* socket "connect" event
SocketConnect ==
  /\ sock = "connecting"
  /\ sock' = "open"
  /\ isConnected' = TRUE
  /\ wire' = <<>>
  /\ fatal' = FALSE
  /\ lastData' = NoData
  /\ UNCHANGED <<responseCallbacks, lengthBuffer, messageBuffer, expectedLength,
                 calls, answered, written, input, frames, batch>>

\* mutant: the "close" listener leaves the flag alone
SocketCloseKeepsFlag ==
  /\ sock = "open"
  /\ wire = <<>>
  /\ sock' = "idle"
  /\ lastData' = NoData
  /\ UNCHANGED <<isConnected, responseCallbacks, lengthBuffer, messageBuffer, expectedLength,
                 calls, answered, written, wire, input, fatal, frames, batch>>

\* socket "close" event: everything received has been delivered before it
SocketClose ==
  /\ sock = "open"
  /\ wire = <<>>
  /\ sock' = "idle"
  /\ isConnected' = FALSE
  /\ lastData' = NoData
  /\ UNCHANGED <<responseCallbacks, lengthBuffer, messageBuffer, expectedLength,
                 calls, answered, written, wire, input, fatal, frames, batch>>

\* socket "error" event: the socket is destroyed, undelivered bytes are lost
SocketError ==
  /\ sock \in {"connecting", "open"}
  /\ sock' = "idle"
  /\ isConnected' = FALSE
  /\ wire' = <<>>
  /\ lastData' = NoData
  /\ UNCHANGED <<responseCallbacks, lengthBuffer, messageBuffer, expectedLength,
                 calls, answered, written, input, fatal, frames, batch>>

\* generateRequestId(): Date.now() and six random digits; nothing keeps two
\* calls from drawing the same string
GenerateRequestId == Ids

\* the timer callback of call c
TimeoutCallback(reg, cs, c) ==
  IF reg[cs[c].id] # 0
    THEN [reg |-> [reg EXCEPT ![cs[c].id] = 0],
          calls |-> Reject(cs, c, TimeoutError(cs[c].method))]
    ELSE [reg |-> reg, calls |-> cs]

\* sendCommand(command, params) called with timeoutMs as a third argument (<<>>:
\* with none); serialisable: JSON.stringify(commandObj) returns
SendCommand(command, serialisable, timeoutMs) ==
  /\ Len(calls) < MaxCalls
  /\ \E requestId \in GenerateRequestId :
       LET c == Len(calls) + 1
           call == NewCall(requestId, command, timeoutMs)
       IN /\ sock' = ConnectEffect
          /\ responseCallbacks' = [responseCallbacks EXCEPT ![requestId] = c]
          /\ IF serialisable
               THEN /\ written' = Append(written, EncodeFrame(StringifyCommand(command, requestId)))
                    /\ calls' = Append(calls, [call EXCEPT !.timer = "armed"])
               ELSE /\ written' = written
                    /\ calls' = Reject(Append(calls, call), c, << "exception" >>)
  /\ answered' = Append(answered, "no")
  /\ lastData' = NoData
  /\ UNCHANGED <<isConnected, lengthBuffer, messageBuffer, expectedLength, wire,
                 input, fatal, frames, batch>>

\* the setTimeout callback of call c runs; equal delays fire in creation order
TimerFire(c) ==
  /\ c \in DOMAIN calls
  /\ calls[c].timer = "armed"
  /\ \A d \in 1..(c - 1) : calls[d].timer # "armed"
  /\ LET r == TimeoutCallback(responseCallbacks, calls, c)
     IN /\ responseCallbacks' = r.reg
        /\ calls' = [r.calls EXCEPT ![c].timer = "fired"]
  /\ lastData' = NoData
  /\ UNCHANGED <<isConnected, sock, lengthBuffer, messageBuffer, expectedLength,
                 answered, written, wire, input, fatal, frames, batch>>

\* the peer writes one item
PeerWrite(item) ==
  /\ sock = "open"
  /\ frames < MaxFrames
  /\ frames' = frames + 1
  /\ wire' = wire \o item.bytes
  /\ lastData' = NoData
  /\ UNCHANGED <<isConnected, sock, responseCallbacks, lengthBuffer, messageBuffer,
                 expectedLength, calls, answered, written, input, fatal, batch>>

\* the record of which calls have seen a response with their id handled
Answered(emits) ==
  [c \in DOMAIN calls |->
     IF answered[c] = "no" /\ \E i \in DOMAIN emits :
                                 LET r == ParseJSON(emits[i].payload)
                                 IN r.ok /\ ~r.isNull /\ r.id = calls[c].id
       THEN IF calls[c].timer = "fired" THEN "after" ELSE "before"
       ELSE answered[c]]

\* socket "data" event: the next n bytes arrive as one chunk.  Spec feeds one
\* byte or everything in flight, SpecFramer every chunk size, the empty chunk
\* included.
Data(n) ==
  /\ sock = "open"
  /\ n \in 0..Len(wire)
  /\ LET data == SubSeq(wire, 1, n)
         st == ProcessData(data)
     IN /\ lengthBuffer' = st.lengthBuffer
        /\ messageBuffer' = st.messageBuffer
        /\ expectedLength' = st.expectedLength
        /\ responseCallbacks' = st.reg
        /\ calls' = st.calls
        /\ answered' = Answered(st.emits)
        /\ fatal' = st.fatal
        /\ lastData' = [chunk |-> data, emits |-> st.emits, log |-> st.log]
        /\ wire' = SubSeq(wire, n + 1, Len(wire))
  /\ UNCHANGED <<isConnected, sock, written, input, frames, batch>>

Next ==
  \/ Connect
  \/ Disconnect
  \/ SocketConnect
  \/ SocketClose
  \/ SocketError
  \/ \E m \in Methods, ser \in BOOLEAN : SendCommand(m, ser, <<>>)
  \/ \E c \in 1..MaxCalls : TimerFire(c)
  \/ \E item \in PeerItems : PeerWrite(item)
  \/ \E n \in {1, Len(wire)} : Data(n)

Spec == Init /\ [][Next]_vars

\* The event loop runs every due setTimeout callback, and bytes the socket has
\* received reach the "data" listener.
Fairness ==
  /\ \A c \in 1..MaxCalls : WF_vars(TimerFire(c))
  /\ WF_vars(\E n \in {1, Len(wire)} : Data(n))

SpecLive == Init /\ [][Next]_vars /\ Fairness

\* ------------------------------------------------------------ timeout runs
\* Callers that pass a timeout as a third argument, or none, and are never
\* answered.
TimeoutArgs == { <<>>, << 50 >> }

NextTimeout ==
  \/ \E m \in Methods, t \in TimeoutArgs : SendCommand(m, TRUE, t)
  \/ \E c \in 1..MaxCalls : TimerFire(c)

SpecTimeout == Init /\ [][NextTimeout]_vars

\* ------------------------------------------------------ batch routing tools
\* route_pipes_by_waypoints and route_conduits_by_waypoints: one tool call,
\* from its arguments to its response.  A raw task is "valid", "notObject"
\* (a value that is no object) or "noIds" (an object without numeric
\* startElementId / endElementId).  The tool sees sendCommand only as a promise
\* that resolves or rejects.
Tools == { "route_pipes_by_waypoints", "route_conduits_by_waypoints" }
\* "null" is a falsy value (null, 0, ""), "notObject" a truthy non-object,
\* "noIds" an object whose start or end element id is not a number
TaskKinds == { "valid", "null", "notObject", "noIds" }

connVars == <<isConnected, sock, responseCallbacks, lengthBuffer, messageBuffer,
              expectedLength, calls, answered, written, wire, input, lastData,
              fatal, frames>>

RECURSIVE TaskSeqs(_)
TaskSeqs(k) ==
  IF k = 0 THEN { <<>> }
  ELSE LET shorter == TaskSeqs(k - 1)
       IN shorter \cup { Append(s, t) : s \in { u \in shorter : Len(u) = k - 1 }, t \in TaskKinds }

\* the arguments: tasks and task are <<>> when absent, << value >> when given
ToolArgs ==
  [ tasks : { <<>> } \cup { << s >> : s \in TaskSeqs(MaxTasks) },
    task : { <<>> } \cup { << t >> : t \in TaskKinds },
    parallel : BOOLEAN, stopOnError : BOOLEAN ]

\* the truthiness test of args?.task
Truthy(t) == t # "null"

\* args?.tasks ?? (args?.task ? [args.task] : [])
RawTasks(args) ==
  IF args.tasks # <<>> THEN args.tasks[1]
  ELSE IF args.task # <<>> /\ Truthy(args.task[1]) THEN << args.task[1] >> ELSE <<>>

\* normalizeTask / normalizeConduitTask return for a valid task and throw
\* for the others
Normalizes(t) == t = "valid"

\* the handler's catch: the response is the error text
FailCall(b) == [b EXCEPT !.pc = "done", !.response = "error"]

\* mutant: total counts the result entries
SummaryTotalFromResults(b) ==
  [ total |-> Len(b.results),
    succeeded |-> Cardinality({ n \in DOMAIN b.results : b.results[n].ok }),
    failed |-> Cardinality({ n \in DOMAIN b.results : ~b.results[n].ok }) ]

\* total: tasks.length, succeeded and failed: results.filter(...).length
Summary(b) ==
  [ total |-> Len(b.tasks),
    succeeded |-> Cardinality({ n \in DOMAIN b.results : b.results[n].ok }),
    failed |-> Cardinality({ n \in DOMAIN b.results : ~b.results[n].ok }) ]

\* the summary is built and returned
FinishCall(b) ==
  [b EXCEPT !.pc = "done", !.response = "summary", !.summary = Summary(b)]

\* parallel branch: tasks.map(execOne) starts every task
StartAll(b) == [b EXCEPT !.exec = [k \in DOMAIN b.tasks |-> "acquiring"]]

\* mutant: the loop goes on to the next task without awaiting this one
StartTaskAndNext(b, k) ==
  [b EXCEPT !.i = k,
            !.exec = [j \in DOMAIN b.tasks |->
                        IF j = k \/ j = k + 1 THEN "acquiring" ELSE b.exec[j]]]

\* sequential loop: execOne(tasks[i]) is called and awaited
StartTask(b, k) == [b EXCEPT !.i = k, !.exec[k] = "acquiring"]

\* mutant: only the first task is normalized before the commands start
ToolCallValidatesFirst(tool, args) ==
  /\ batch.pc = "idle"
  /\ LET rawTasks == RawTasks(args)
         b == [ pc |-> "running", tool |-> tool, tasks |-> rawTasks,
                parallel |-> args.parallel, stopOnError |-> args.stopOnError,
                i |-> 0, exec |-> [k \in DOMAIN rawTasks |-> "none"],
                sent |-> <<>>, results |-> <<>>, response |-> "none",
                summary |-> NoSummary ]
     IN batch' =
          IF rawTasks = <<>> THEN FailCall(b)
          ELSE IF ~Normalizes(rawTasks[1]) THEN FailCall(b)
          ELSE IF b.parallel THEN StartAll(b)
          ELSE StartTask(b, 1)
  /\ UNCHANGED connVars

\* the tool handler, up to its first await
ToolCall(tool, args) ==
  /\ batch.pc = "idle"
  /\ LET rawTasks == RawTasks(args)
         b == [ pc |-> "running", tool |-> tool, tasks |-> rawTasks,
                parallel |-> args.parallel, stopOnError |-> args.stopOnError,
                i |-> 0, exec |-> [k \in DOMAIN rawTasks |-> "none"],
                sent |-> <<>>, results |-> <<>>, response |-> "none",
                summary |-> NoSummary ]
     IN batch' =
          IF rawTasks = <<>> THEN FailCall(b)
          ELSE IF \E k \in DOMAIN rawTasks : ~Normalizes(rawTasks[k]) THEN FailCall(b)
          ELSE IF b.parallel THEN StartAll(b)
          ELSE StartTask(b, 1)
  /\ UNCHANGED connVars

Result(k, ok) == [index |-> k - 1, ok |-> ok]

IsSettled(e) == e \in {"ok", "failed"}

\* mutant: the parallel branch pushes each entry when its command settles
TaskSettledCompletionOrder(b, k, ok) ==
  LET exec == [b.exec EXCEPT ![k] = IF ok THEN "ok" ELSE "failed"]
      b2 == [b EXCEPT !.exec = exec, !.results = Append(@, Result(k, ok))]
  IN IF b.parallel
       THEN IF \A j \in DOMAIN exec : IsSettled(exec[j]) THEN FinishCall(b2) ELSE b2
     ELSE IF ~ok /\ b.stopOnError THEN FinishCall(b2)
          ELSE IF k = Len(b.tasks) THEN FinishCall(b2)
          ELSE StartTask(b2, k + 1)

\* what the handler does when execOne of task k settles
TaskSettled(b, k, ok) ==
  LET exec == [b.exec EXCEPT ![k] = IF ok THEN "ok" ELSE "failed"]
      b1 == [b EXCEPT !.exec = exec]
  IN IF b.parallel
       THEN IF \A j \in DOMAIN exec : IsSettled(exec[j])
              THEN FinishCall([b1 EXCEPT !.results =
                                 [j \in DOMAIN exec |-> Result(j, exec[j] = "ok")]])
              ELSE b1
     ELSE LET b2 == [b1 EXCEPT !.results = Append(@, Result(k, ok))]
          IN IF ~ok /\ b.stopOnError THEN FinishCall(b2)
             ELSE IF k = Len(b.tasks) THEN FinishCall(b2)
             ELSE StartTask(b2, k + 1)

\* withRevitConnection hands a connection to the operation of task k, which
\* calls sendCommand: the command of task k is sent
Acquire(k) ==
  /\ batch.pc = "running"
  /\ k \in DOMAIN batch.exec
  /\ batch.exec[k] = "acquiring"
  /\ batch' = [batch EXCEPT !.exec[k] = "sent", !.sent = Append(@, k)]
  /\ UNCHANGED connVars

\* withRevitConnection fails before the operation of task k is called
AcquireFails(k) ==
  /\ batch.pc = "running"
  /\ k \in DOMAIN batch.exec
  /\ batch.exec[k] = "acquiring"
  /\ batch' = TaskSettled(batch, k, FALSE)
  /\ UNCHANGED connVars

\* the promise of task k's sendCommand resolves (ok) or rejects
CommandSettles(k, ok) ==
  /\ batch.pc = "running"
  /\ k \in DOMAIN batch.exec
  /\ batch.exec[k] = "sent"
  /\ batch' = TaskSettled(batch, k, ok)
  /\ UNCHANGED connVars

NextBatch ==
  \/ \E tool \in Tools, args \in ToolArgs : ToolCall(tool, args)
  \/ \E k \in 1..MaxTasks : Acquire(k)
  \/ \E k \in 1..MaxTasks : AcquireFails(k)
  \/ \E k \in 1..MaxTasks, ok \in BOOLEAN : CommandSettles(k, ok)

SpecBatch == Init /\ [][NextBatch]_vars

\* ------------------------------------------------------------ framing runs
\* A framing run: a connected object whose peer has written the items of
\* `input`; the bytes then arrive in chunks of any sizes.
RECURSIVE ItemSeqs(_)
ItemSeqs(k) ==
  IF k = 0 THEN { <<>> }
  ELSE LET shorter == ItemSeqs(k - 1)
       IN shorter \cup { Append(s, i) : s \in { t \in shorter : Len(t) = k - 1 }, i \in FramerItems }

RECURSIVE BytesOf(_)
BytesOf(items) == IF items = <<>> THEN <<>> ELSE Head(items).bytes \o BytesOf(Tail(items))

InitFramer ==
  /\ isConnected = TRUE
  /\ sock = "open"
  /\ responseCallbacks = [i \in Ids |-> 0]
  /\ lengthBuffer = <<>>
  /\ messageBuffer = <<>>
  /\ expectedLength = <<>>
  /\ calls = <<>>
  /\ answered = <<>>
  /\ written = <<>>
  /\ input \in ItemSeqs(MaxItems) \ { <<>> }
  /\ wire = BytesOf(input)
  /\ lastData = NoData
  /\ fatal = FALSE
  /\ frames = 0
  /\ batch = NoBatch

NextFramer == \E n \in 0..Len(wire) : Data(n)

SpecFramer == InitFramer /\ [][NextFramer]_vars

\* ------------------------------------------------- positions in a framing run
\* byte offsets of item k in the stream, bytes consumed so far, and the offset
\* at which the latest chunk began
RECURSIVE StartOf(_)
StartOf(k) == IF k = 1 THEN 0 ELSE StartOf(k - 1) + Len(input[k - 1].bytes)
EndOf(k) == StartOf(k) + Len(input[k].bytes)
Consumed == Len(BytesOf(input)) - Len(wire)
ChunkStart == Consumed - Len(lastData.chunk)

\* item k begins on a frame boundary of the Framer: only framed payloads precede it
Aligned(k) == k \in DOMAIN input /\ \A j \in 1..(k - 1) : input[j].t = "msg"

\* the handleResponse calls owed to the frames 1..last that end in the bytes
\* (from, to] of the stream, for a chunk that began at offset from
RECURSIVE Completed(_, _, _)
Completed(from, to, last) ==
  IF last = 0 THEN <<>>
  ELSE LET before == Completed(from, to, last - 1)
       IN IF from < EndOf(last) /\ EndOf(last) <= to
            THEN Append(before, [payload |-> input[last].str, winner |-> 0,
                                 at |-> EndOf(last) - from])
            ELSE before

\* the number of framed payloads the stream begins with
LeadingFrames ==
  CHOOSE a \in 0..Len(input) :
    /\ \A j \in 1..a : input[j].t = "msg"
    /\ (a = Len(input) \/ input[a + 1].t = "raw")

BuffersEmpty == lengthBuffer = <<>> /\ messageBuffer = <<>> /\ expectedLength = <<>>

\* C2: framing round-trip.  A payload encoded by EncodeFrame and fed to
\* processData in chunks of any sizes is handed to handleResponse exactly once,
\* unchanged, by the chunk that brings its last byte, and the receive buffers
\* are empty afterwards; no earlier chunk hands anything over.
C2_RoundTrip ==
  (Len(input) = 1 /\ input[1].t = "msg") =>
     IF wire = <<>> /\ lastData.chunk # <<>>
       THEN /\ lastData.emits = << [payload |-> input[1].str, winner |-> 0,
                                    at |-> Len(lastData.chunk)] >>
            /\ BuffersEmpty
       ELSE lastData.emits = <<>>

\* a payload with a two-byte character has arrived whole, its last chunk being
\* the second byte of that character
C2_Witness ==
  /\ input = << Msg(<< Ch.id2, Ch.resultNonAscii >>) >>
  /\ wire = <<>>
  /\ Len(lastData.chunk) = 1
  /\ lastData.emits # <<>>

\* C3: boundary straddling.  When the stream begins with two (or more) valid
\* frames, every chunk that begins inside them hands over exactly the frames
\* whose last byte it brings, in stream order, each at the offset of its last
\* byte; so each frame is handed over once, the first before the second, and a
\* chunk holding several complete frames hands them all over in that one call.
C3_BoundaryStraddling ==
  LeadingFrames >= 2 =>
    (ChunkStart < EndOf(LeadingFrames) =>
       lastData.emits =
         Completed(ChunkStart, Min(Consumed, EndOf(LeadingFrames)), LeadingFrames))

\* a chunk that began inside the first frame and ended inside the length prefix
\* of the second has handed over the first payload only
C3_Witness ==
  /\ Len(input) = 2
  /\ input[1].t = "msg" /\ input[2].t = "msg"
  /\ ChunkStart > 0 /\ ChunkStart < EndOf(1)
  /\ Consumed > EndOf(1) /\ Consumed < EndOf(1) + 4
  /\ Len(lastData.emits) = 1
  /\ lengthBuffer # <<>>

InvalidLengthReport(n) == [what |-> "Invalid message length", n |-> n]

\* the chunk of the latest step brought the last byte of the prefix of item k
PrefixCompleted(k) == ChunkStart < StartOf(k) + 4 /\ StartOf(k) + 4 <= Consumed

\* C4: oversized rejection.  When the chunk completes a length prefix that
\* decodes to 0, to a negative number or to more than 10 MiB, processData
\* reports the invalid length, hands over nothing for that frame nor for the
\* rest of the chunk, and drops its buffers.  A prefix of exactly 10 MiB is
\* accepted (the Framer waits for 10 MiB of payload) and so is a prefix of 1.
C4_OversizedRejection ==
  \A k \in DOMAIN input :
    (Aligned(k) /\ PrefixCompleted(k)) =>
       LET n == ReadInt32BE(SubSeq(input[k].bytes, 1, 4))
           before == Completed(ChunkStart, StartOf(k), k - 1)
       IN IF n <= 0 \/ n > 10 * 1024 * 1024
            THEN /\ lastData.log = << InvalidLengthReport(n) >>
                 /\ lastData.emits = before
                 /\ BuffersEmpty
            ELSE /\ \A i \in DOMAIN lastData.log : lastData.log[i] # InvalidLengthReport(n)
                 /\ IF Consumed < EndOf(k) \/ input[k].t = "raw"
                      THEN /\ expectedLength = << n >>
                           /\ lengthBuffer = <<>>
                           /\ messageBuffer =
                                SubSeq(BytesOf(input), StartOf(k) + 5, Consumed)
                           /\ lastData.emits = before
                      ELSE /\ Len(lastData.emits) > Len(before)
                           /\ lastData.emits[Len(before) + 1].payload = input[k].str

\* a prefix of 10 MiB + 1 has been reported after a valid frame in the same chunk
C4_Witness ==
  /\ Len(input) = 2
  /\ input[1].t = "msg"
  /\ input[2] = Raw(PrefixTooLong)
  /\ wire = <<>>
  /\ lastData.log = << InvalidLengthReport(MaxMessageLength + 1) >>
  /\ Len(lastData.emits) = 1

\* ------------------------------------------------------- correlation claims
Parsed(e) == ParseJSON(e.payload)
HasId(e) == Parsed(e).ok /\ ~Parsed(e).isNull

\* C1: correlation exclusivity.  A call for whose id a response was handled and
\* whose timeout has fired, in either order, has had resolve or reject called
\* exactly once.
C1_ExactlyOnce ==
  \A c \in DOMAIN calls :
    (answered[c] # "no" /\ calls[c].timer = "fired") => calls[c].settleCalls = 1

\* C5: timeout.  A call whose timeout fired before any response with its id
\* was handled is rejected, once, with the timeout error naming its method, and
\* holds no entry of the registry afterwards, whether or not a late response
\* has been handled since.
C5_Timeout ==
  \A c \in DOMAIN calls :
    (calls[c].timer = "fired" /\ answered[c] # "before") =>
       /\ calls[c].state = "rejected"
       /\ calls[c].value = TimeoutError(calls[c].method)
       /\ calls[c].settleCalls = 1
       /\ responseCallbacks[calls[c].id] # c

\* C6: every call settles.  With timers that fire and inbound bytes that are
\* delivered, the promise of every sendCommand call made is eventually
\* resolved or rejected.
C6_EventuallySettles ==
  \A c \in 1..MaxCalls :
    [](Len(calls) >= c => <>(Len(calls) >= c /\ calls[c].state # "pending"))

\* C7: response handling.  In every processData call, a payload with an id is
\* handed to the callback registered under that id and to no other; the call it
\* belongs to carries that id and, if still pending, is rejected with the
\* message of the "error" field when there is one and resolved with the
\* "result" field otherwise.
C7_ResponseHandling ==
  [][ \A i \in DOMAIN lastData'.emits :
        LET e == lastData'.emits[i]
            r == Parsed(e)
            c == e.winner
            first == \A j \in 1..(i - 1) :
                       ~(HasId(lastData'.emits[j]) /\ Parsed(lastData'.emits[j]).id = r.id)
        IN /\ c # 0 => (HasId(e) /\ calls[c].id = r.id)
           /\ (HasId(e) /\ first) => c = GetCallback(responseCallbacks, r.id)
           /\ (c # 0 /\ calls[c].state = "pending") =>
                IF r.error # "absent"
                  THEN /\ calls'[c].state = "rejected"
                       /\ calls'[c].value =
                            << IF r.error = "empty" THEN "Unknown error from Revit" ELSE r.error >>
                  ELSE /\ calls'[c].state = "resolved"
                       /\ calls'[c].value = << r.result >>
    ]_vars

\* a pending call has just been rejected with the message of an error response
C7_Witness ==
  \E i \in DOMAIN lastData.emits :
    LET c == lastData.emits[i].winner
    IN /\ c # 0
       /\ Parsed(lastData.emits[i]).error = "boom"
       /\ calls[c].state = "rejected"
       /\ calls[c].value = << "boom" >>
       /\ calls[c].settleCalls = 1

\* C8: unknown id drop.  A processData call all of whose payloads carry ids
\* without an entry in the registry reports no parse error, changes neither
\* the registry nor any call, and leaves the Framer at the start of a frame:
\* empty when the chunk ended with the payload, holding the bytes that follow
\* as the beginning of the next length prefix otherwise.
C8_UnknownIdDrop ==
  [][ ( /\ lastData'.emits # <<>>
        /\ \A i \in DOMAIN lastData'.emits :
             /\ HasId(lastData'.emits[i])
             /\ GetCallback(responseCallbacks, Parsed(lastData'.emits[i]).id) = 0 )
      => LET chunk == lastData'.chunk
             at == lastData'.emits[Len(lastData'.emits)].at
         IN /\ responseCallbacks' = responseCallbacks
            /\ calls' = calls
            /\ \A i \in DOMAIN lastData'.log : lastData'.log[i].what # "Error parsing response"
            /\ Len(chunk) - at < 4 =>
                 /\ lengthBuffer' = SubSeq(chunk, at + 1, Len(chunk))
                 /\ messageBuffer' = <<>>
                 /\ expectedLength' = <<>>
    ]_vars

\* a response for an id without an entry has been dropped while another call
\* was waiting under its own id
C8_Witness ==
  /\ Len(lastData.emits) = 1
  /\ HasId(lastData.emits[1])
  /\ lastData.emits[1].winner = 0
  /\ \E c \in DOMAIN calls :
       /\ calls[c].state = "pending"
       /\ responseCallbacks[calls[c].id] = c
       /\ calls[c].id # Parsed(lastData.emits[1]).id

\* C9: timeout isolation.  The step in which the timer of call c fires removes
\* no entry of the registry but one that belongs to c, changes no other call,
\* and leaves the connection state and the receive buffers alone.
C9_TimeoutIsolation ==
  [][ \A c \in DOMAIN calls :
        (calls[c].timer = "armed" /\ calls'[c].timer = "fired") =>
           /\ \A i \in Ids :
                responseCallbacks'[i] # responseCallbacks[i] => responseCallbacks[i] = c
           /\ \A d \in DOMAIN calls : d # c => calls'[d] = calls[d]
           /\ UNCHANGED <<isConnected, sock, lengthBuffer, messageBuffer, expectedLength>>
    ]_vars

\* C10: a framing error is fatal.  Once an invalid length has been reported on
\* a connection, no later processData call on that connection hands a payload
\* to a waiting callback.
C10_FramingErrorFatal ==
  [][ fatal => \A i \in DOMAIN lastData'.emits : lastData'.emits[i].winner = 0 ]_vars

\* ------------------------------------------------------ connection claims
Malformed(e) == ~Parsed(e).ok

ParseErrorReports(log) ==
  Cardinality({ i \in DOMAIN log : log[i].what = "Error parsing response" })

\* C11: a malformed payload is a soft error.  In every processData call that
\* completes a frame whose payload is no JSON, that payload is reported and
\* handed to no callback; the connection state stays as it is (and the
\* connection is not marked by a framing error unless an invalid length prefix
\* follows in the same chunk); the registry
\* and the calls change only through the well-formed payloads of the chunk,
\* each of which still reaches the callback registered under its id; and the
\* Framer is left at the start of the next frame.
C11_MalformedSoftError ==
  [][ (\E k \in DOMAIN lastData'.emits : Malformed(lastData'.emits[k])) =>
        LET emits == lastData'.emits
            chunk == lastData'.chunk
            at == emits[Len(emits)].at
        IN /\ \A i \in DOMAIN emits : Malformed(emits[i]) => emits[i].winner = 0
           /\ ParseErrorReports(lastData'.log)
                = Cardinality({ i \in DOMAIN emits : ~HasId(emits[i]) })
           /\ UNCHANGED <<isConnected, sock>>
           /\ fatal' # fatal =>
                \E i \in DOMAIN lastData'.log : lastData'.log[i].what = "Invalid message length"
           /\ \A i \in Ids :
                responseCallbacks'[i] # responseCallbacks[i] =>
                  \E j \in DOMAIN emits : HasId(emits[j]) /\ Parsed(emits[j]).id = i
           /\ \A c \in DOMAIN calls :
                calls'[c] # calls[c] =>
                  \E j \in DOMAIN emits : HasId(emits[j]) /\ emits[j].winner = c
           /\ \A j \in DOMAIN emits :
                (HasId(emits[j]) /\ \A h \in 1..(j - 1) : ~HasId(emits[h])) =>
                  emits[j].winner = GetCallback(responseCallbacks, Parsed(emits[j]).id)
           /\ Len(chunk) - at < 4 =>
                /\ lengthBuffer' = SubSeq(chunk, at + 1, Len(chunk))
                /\ messageBuffer' = <<>>
                /\ expectedLength' = <<>>
    ]_vars

\* a chunk held a payload that is no JSON and then a response, and the
\* response has resolved the call that was waiting for it
C11_Witness ==
  /\ Len(lastData.emits) = 2
  /\ Malformed(lastData.emits[1])
  /\ lastData.emits[2].winner # 0
  /\ calls[lastData.emits[2].winner].state = "resolved"
  /\ isConnected

\* a step of sendCommand (a new call appears)
SendCommandStep == \E m \in Methods, ser \in BOOLEAN : SendCommand(m, ser, <<>>)

\* C12: implicit connect.  A sendCommand made while a connect attempt is in
\* progress does not go on to socket.connect().
C12_ImplicitConnect ==
  [][ (sock = "connecting" /\ SendCommandStep) => ~CallsSocketConnect ]_vars

\* the lifecycle state: Connected is the isConnected flag, Connecting the
\* socket's pending connect attempt
LifecycleState(flag, s) ==
  IF flag THEN "Connected" ELSE IF s = "connecting" THEN "Connecting" ELSE "Disconnected"

\* the second half of C13, shared by the claim as stated and as amended: the
\* flag rises on the socket "connect" event only, and every "close" event,
\* "error" event and disconnect() call leaves it down
ConnectedOnlyAfterConnect ==
  /\ (isConnected' /\ ~isConnected) => SocketConnect
  /\ (Disconnect \/ SocketClose \/ SocketError) => ~isConnected'

\* C13 as stated: the lifecycle state changes only along
\* Disconnected -connect()-> Connecting -"connect"-> Connected and
\* Connected -"close"/"error"/disconnect()-> Disconnected.
C13_LifecycleAsStated ==
  [][ LET a == LifecycleState(isConnected, sock)
          b == LifecycleState(isConnected', sock')
      IN /\ a # b =>
              \/ a = "Disconnected" /\ b = "Connecting" /\ (Connect \/ SendCommandStep)
              \/ a = "Connecting" /\ b = "Connected" /\ SocketConnect
              \/ a = "Connected" /\ b = "Disconnected"
                   /\ (SocketClose \/ SocketError \/ Disconnect)
         /\ ConnectedOnlyAfterConnect
    ]_vars

\* C13 (amended): as stated, with one more transition: a connect attempt that
\* fails takes Connecting back to Disconnected on the socket "error" event.
C13_Lifecycle ==
  [][ LET a == LifecycleState(isConnected, sock)
          b == LifecycleState(isConnected', sock')
      IN /\ a # b =>
              \/ a = "Disconnected" /\ b = "Connecting" /\ (Connect \/ SendCommandStep)
              \/ a = "Connecting" /\ b = "Connected" /\ SocketConnect
              \/ a = "Connecting" /\ b = "Disconnected" /\ SocketError
              \/ a = "Connected" /\ b = "Disconnected"
                   /\ (SocketClose \/ SocketError \/ Disconnect)
         /\ ConnectedOnlyAfterConnect
    ]_vars

\* the connection has been Connected (the peer has written to it) and is
\* Disconnected again
C13_Witness ==
  /\ LifecycleState(isConnected, sock) = "Disconnected"
  /\ sock = "idle"
  /\ frames > 0

\* C14: disconnect() and the socket "close" and "error" events drop the flag
\* and leave the registry and every call as they are; a pending call is
\* settled only by its own timer, with the timeout error, or by a response
\* handed to its callback.
C14_DisconnectLeavesRegistry ==
  [][ /\ (Disconnect \/ SocketClose \/ SocketError) =>
            /\ ~isConnected'
            /\ responseCallbacks' = responseCallbacks
            /\ calls' = calls
      /\ \A c \in DOMAIN calls :
            (calls[c].state = "pending" /\ calls'[c].state # "pending") =>
               \/ /\ TimerFire(c)
                  /\ calls'[c].state = "rejected"
                  /\ calls'[c].value = TimeoutError(calls[c].method)
               \/ \E i \in DOMAIN lastData'.emits : lastData'.emits[i].winner = c
    ]_vars

\* after disconnect() on an open socket a call is still pending, registered
\* and waiting for its timer
C14_Witness ==
  /\ ~isConnected
  /\ sock = "open"
  /\ \E c \in DOMAIN calls :
       /\ calls[c].state = "pending"
       /\ calls[c].timer = "armed"
       /\ responseCallbacks[calls[c].id] = c

\* C15: the timeout is configurable per call and defaults to 120000 ms.  A
\* call that was never answered and whose timer has fired was failed after
\* the timeout its caller passed, or after 120000 ms when none was passed.
C15_TimeoutConfigurable ==
  \A c \in DOMAIN calls :
    (calls[c].timer = "fired" /\ answered[c] = "no") =>
       calls[c].delay = (IF calls[c].timeoutMs = <<>> THEN 120000 ELSE calls[c].timeoutMs[1])

\* exactly one de-framing stage is active
StageActive ==
  \/ /\ expectedLength = <<>>
     /\ messageBuffer = <<>>
     /\ Len(lengthBuffer) \in 0..3
  \/ /\ expectedLength # <<>>
     /\ expectedLength[1] > 0 /\ expectedLength[1] <= 10 * 1024 * 1024
     /\ lengthBuffer = <<>>
     /\ Len(messageBuffer) < expectedLength[1]

\* the stream has been consumed up to the end of a frame
OnFrameBoundary == \E k \in DOMAIN input : Aligned(k) /\ input[k].t = "msg" /\ Consumed = EndOf(k)

\* C18: receive buffer invariant.  Between processData calls exactly one stage
\* is active; when the bytes consumed end on a frame boundary, and when the
\* last byte of a chunk completed a frame, both accumulators are empty and no
\* length is known; a zero-byte chunk changes nothing.
C18_ReceiveBufferInvariant ==
  /\ [](StageActive)
  /\ [](OnFrameBoundary => BuffersEmpty)
  /\ []((lastData.emits # <<>>
           /\ lastData.emits[Len(lastData.emits)].at = Len(lastData.chunk)) => BuffersEmpty)
  /\ [][ Data(0) => UNCHANGED <<lengthBuffer, messageBuffer, expectedLength,
                                 responseCallbacks, calls, fatal, wire>> ]_vars

\* a zero-byte chunk has arrived in the middle of a payload, whose first bytes
\* are still held
C18_Witness ==
  /\ Consumed > 0
  /\ lastData.chunk = <<>>
  /\ expectedLength # <<>>
  /\ messageBuffer # <<>>
  /\ wire # <<>>

\* the calls that wrote a frame (those whose timer was set), in call order
RECURSIVE Writers(_)
Writers(k) ==
  IF k = 0 THEN <<>>
  ELSE IF calls[k].timer # "none" THEN Append(Writers(k - 1), k) ELSE Writers(k - 1)

\* C19: outbound framing.  What has been handed to socket.write is one Buffer
\* per call that got as far as writing, in call order; each Buffer is a whole
\* frame, its prefix the big-endian byte count of what follows, and what
\* follows decodes to the envelope of that call: its method, its params and
\* its id.
C19_OutboundFraming ==
  LET w == Writers(Len(calls))
  IN /\ Len(written) = Len(w)
     /\ \A k \in DOMAIN written :
          LET f == written[k]
              c == w[k]
          IN /\ Len(f) >= 4
             /\ ReadInt32BE(SubSeq(f, 1, 4)) = Len(f) - 4
             /\ Utf8Decode(SubSeq(f, 5, Len(f)))
                  = << MethodChar(calls[c].method), Ch.params, calls[c].id >>

\* two calls with different methods have each written their frame
C19_Witness ==
  /\ Len(written) = 2
  /\ Len(calls) = 2
  /\ calls[1].method # calls[2].method
  /\ written[1] # written[2]

\* C20: registration precedes transmission.  A call that has written its frame,
\* whose timer has not fired and for whose id no response has been handled
\* yet, holds the entry of the registry under its id: a response that arrives
\* now finds its waiter.
C20_RegistrationPrecedes ==
  \A c \in DOMAIN calls :
    (calls[c].timer = "armed" /\ answered[c] = "no") =>
       responseCallbacks[calls[c].id] = c

\* ------------------------------------------------------------ batch claims
SentTasks == { batch.sent[n] : n \in DOMAIN batch.sent }

\* the command of task k was sent and has failed
CommandFailed(k) == k \in SentTasks /\ batch.exec[k] = "failed"

\* C16: stopOnError.  With stopOnError no command is sent for a task that
\* comes after a task whose command has failed; without it, a call that
\* returns its summary has attempted every task.
C16_StopOnError ==
  /\ batch.stopOnError =>
       \A j \in SentTasks : \A i \in 1..(j - 1) : ~CommandFailed(i)
  /\ (~batch.stopOnError /\ batch.response = "summary") =>
       \A k \in DOMAIN batch.tasks : IsSettled(batch.exec[k])

\* C17: serial execution.  Without parallel, the commands are sent in task
\* order, the command of a task is sent only when every task before it has
\* settled, and at most one task is in flight.
C17_SerialExecution ==
  ~batch.parallel =>
    /\ \A n \in 1..(Len(batch.sent) - 1) : batch.sent[n] < batch.sent[n + 1]
    /\ \A j \in DOMAIN batch.exec :
         batch.exec[j] # "none" => \A i \in 1..(j - 1) : IsSettled(batch.exec[i])
    /\ Cardinality({ k \in DOMAIN batch.exec : batch.exec[k] \in {"acquiring", "sent"} }) <= 1

\* in a serial batch the second command is in flight after the first one failed
C17_Witness ==
  /\ ~batch.parallel
  /\ batch.pc = "running"
  /\ Len(batch.tasks) >= 2
  /\ batch.sent = << 1, 2 >>
  /\ batch.exec[1] = "failed"
  /\ batch.exec[2] = "sent"

\* ------------------------------------------------------- registry claims
\* C21: no registry leak.  The identifiers that hold an entry of the registry
\* are those of the calls whose promise is not settled, and a call that has
\* been resolved or rejected, by whatever path, is not the holder of an entry.
C21_NoRegistryLeak ==
  /\ \A i \in Ids :
       responseCallbacks[i] # 0 <=>
         \E c \in DOMAIN calls : calls[c].id = i /\ calls[c].state = "pending"
  /\ \A c \in DOMAIN calls :
       calls[c].state # "pending" => responseCallbacks[calls[c].id] # c

\* calls c and d are two calls that exist and carry the same identifier
SameId(c, d) ==
  /\ c # d
  /\ c \in DOMAIN calls /\ d \in DOMAIN calls
  /\ calls[c].id = calls[d].id

\* C22: identifier collision is benign.  Of two calls that are pending at the
\* same time under one identifier, the timer of one never removes the entry
\* that belongs to the other; neither has resolve or reject called more than
\* once; and, with timers that fire and bytes that are delivered, each is
\* eventually settled.
C22_CollisionBenign ==
  /\ [][ \A c, d \in DOMAIN calls :
            ( /\ SameId(c, d)
              /\ calls[c].state = "pending" /\ calls[d].state = "pending"
              /\ responseCallbacks[calls[d].id] = d
              /\ calls[c].timer = "armed" /\ calls'[c].timer = "fired" )
            => responseCallbacks'[calls[d].id] = d ]_vars
  /\ [](\A c, d \in DOMAIN calls :
          (SameId(c, d) /\ calls[c].timer # "none" /\ calls[d].timer # "none")
            => calls[c].settleCalls <= 1)
  /\ \A c, d \in 1..MaxCalls :
       []((SameId(c, d) /\ calls[c].state = "pending" /\ calls[d].state = "pending")
            => <>(SameId(c, d) /\ calls[c].state # "pending"))

\* ---------------------------------------------------------- batch claims
\* the batch holds a task that normalizeTask rejects, or no task at all
InvalidBatch ==
  \/ batch.tasks = <<>>
  \/ \E k \in DOMAIN batch.tasks : batch.tasks[k] # "valid"

\* C23: batch validation is all-or-nothing.  When a tool call carries no task,
\* or any task that is not an object or lacks numeric start and end element
\* ids, no command is started or sent for any task of the call, and the call
\* has returned the failure text.
C23_AllOrNothing ==
  (batch.pc # "idle" /\ InvalidBatch) =>
    /\ batch.sent = <<>>
    /\ \A k \in DOMAIN batch.exec : batch.exec[k] = "none"
    /\ batch.results = <<>>
    /\ batch.pc = "done"
    /\ batch.response = "error"

\* a batch whose first task is valid and whose second is not: nothing was sent
C23_Witness ==
  /\ batch.pc = "done" /\ batch.response = "error"
  /\ Len(batch.tasks) = 3
  /\ batch.tasks[1] = "valid" /\ batch.tasks[2] = "noIds" /\ batch.tasks[3] = "valid"
  /\ batch.sent = <<>>

\* the call runs the parallel branch
ParallelRun == batch.parallel /\ batch.pc # "idle" /\ batch.response # "error"

\* C24: parallel batch results.  In the parallel branch every task's command
\* has been started as soon as the handler first waits; while some task is
\* unsettled the handler keeps waiting, and one task's failure changes no
\* other task's progress; the returned results hold one entry per task, the
\* entry of task i at position i, with ok true exactly when the task's
\* command resolved.
C24_ParallelResults ==
  /\ [](ParallelRun =>
          /\ \A k \in DOMAIN batch.tasks : batch.exec[k] # "none"
          /\ (\E k \in DOMAIN batch.exec : ~IsSettled(batch.exec[k]))
                => (batch.pc = "running" /\ batch.results = <<>>)
          /\ batch.pc = "done" =>
                /\ batch.response = "summary"
                /\ Len(batch.results) = Len(batch.tasks)
                /\ \A k \in DOMAIN batch.results :
                     /\ batch.results[k].index = k - 1
                     /\ batch.results[k].ok <=> (batch.exec[k] = "ok"))
  /\ [][ (ParallelRun /\ batch'.pc # "idle") =>
            \A k, j \in DOMAIN batch.exec :
              (j # k /\ batch.exec[k] # "failed" /\ batch'.exec[k] = "failed")
                => batch'.exec[j] = batch.exec[j] ]_vars

\* task 2 was sent first and failed, task 1 was sent after it and resolved
C24_Witness ==
  /\ batch.parallel /\ batch.pc = "done" /\ batch.response = "summary"
  /\ Len(batch.tasks) = 2
  /\ batch.sent = << 2, 1 >>
  /\ batch.exec = << "ok", "failed" >>
  /\ batch.results = << Result(1, TRUE), Result(2, FALSE) >>

\* a sequential run with stopOnError that stopped at a failed task
StoppedAtFailure ==
  /\ ~batch.parallel /\ batch.stopOnError
  /\ \E k \in DOMAIN batch.exec : batch.exec[k] = "failed"

\* C25: batch summary consistency.  In every returned summary, total is the
\* number of tasks submitted, succeeded + failed is the number of result
\* entries, the entries carry strictly increasing indices, and succeeded +
\* failed is total, except in a sequential run with stopOnError that stopped
\* at a failed task, where it is that task's index plus one.
C25_SummaryConsistency ==
  batch.response = "summary" =>
    LET s == batch.summary
        n == s.succeeded + s.failed
    IN /\ s.total = Len(batch.tasks)
       /\ n = Len(batch.results)
       /\ \A a, c \in DOMAIN batch.results :
            a < c => batch.results[a].index < batch.results[c].index
       /\ IF StoppedAtFailure
            THEN \A k \in DOMAIN batch.exec :
                   batch.exec[k] = "failed" => n = Result(k, FALSE).index + 1
            ELSE n = s.total

\* three tasks, stopOnError, the second failed: two entries, total three
C25_Witness ==
  /\ batch.response = "summary"
  /\ ~batch.parallel /\ batch.stopOnError
  /\ Len(batch.tasks) = 3
  /\ batch.exec[2] = "failed"
  /\ batch.summary = [ total |-> 3, succeeded |-> 1, failed |-> 1 ]

====
